---- MODULE Spec2Model ----
(***************************************************************************)
(* Model of pkg/core/proxy/integrations/grpc/frame.go: the two transferFrame *)
(* relay loops (client->server and server->client) that forward HTTP/2      *)
(* frames and feed the shared StreamInfoCollection, from which one Mock per *)
(* finished stream is sent on the mocks channel.                            *)
(***************************************************************************)
EXTENDS Integers, Sequences, FiniteSets, TLC

VARIABLES
    ctxDone,    \* ctx.Done() is closed
    pc,         \* per loop: position inside transferFrame
    cur,        \* per loop: the frame returned by framer.ReadFrame()
    todo,       \* per loop: the store calls of the frame still to be made
    ret,        \* per loop: the error transferFrame returned (<<>> while running)
    readErr,    \* per loop: the error framer.ReadFrame() returned (<<>> if none)
    inq,        \* per loop: frames the peer sent on rhs, not yet read
    conn,       \* per loop: state of rhs: "open", "eof", "cut" or "reset"
    lastOut,    \* per loop: the last frame written to lhs
    nOut,       \* per loop: number of frames written to lhs
    nRd,        \* per loop: number of frames of a handled type read from rhs
    ops,        \* per loop: the store calls made so far for the frame cur
    decoder,    \* per loop: its hpack.Decoder: header-block fragments written
                \* to it, and the last of them
    nFrag,      \* per loop: header-block fragments read from rhs
    sic,        \* the StreamInfoCollection shared by the two loops
    now,        \* the clock time.Now() reads
    chanLen,    \* Mocks sitting in the mocks channel, not yet received
    lastMock,   \* the last Mock sent on the mocks channel, and the call that sent it
    life,       \* per stream id and use: PersistMockForStream calls returned,
                \* Mocks sent, ResetStream calls made
    stamped,    \* per timestamp field: the stream id of the Data frame whose
                \* handling assigned it last, and the time.Now() it read
    fwd,        \* per stream id: the request payload forwarded to the server
    fwdAtRead,  \* fwd of the stream when the response loop read the frame cur
    cli,        \* the client, per stream id: use, Data frames sent, END_STREAM sent
    srv,        \* the server, per stream id: use, Headers sent, Data frames sent
    srvSaw,     \* per stream id: last use whose request Headers reached the server
    cliSaw,     \* per stream id: last use whose END_STREAM Headers reached the client
    nSent,      \* per peer: frames sent since the initial state
    nCtl,       \* frames of the pass-through types sent by the two peers
    cont,       \* per peer: stream id whose header block is unfinished (0: none)
    ids,        \* the stream ids the client opens on this connection
    splitIn,    \* argument of splitGrpcTrailerHeaders
    splitOut,   \* its result
    splitDone   \* whether it has been called

loopVars == <<pc, cur, todo, ret, readErr, lastOut, nOut, nRd, ops, decoder, nFrag>>

storeVars == <<sic, now, chanLen, lastMock, life, stamped>>

peerVars == <<inq, conn, fwd, fwdAtRead, cli, srv, srvSaw, cliSaw, nSent, nCtl, cont,
              ids>>

splitVars == <<splitIn, splitOut, splitDone>>

vars == <<ctxDone, loopVars, storeVars, peerVars, splitVars>>

----------------------------------------------------------------------------
(* Bounds *)

\* frames one peer sends on its connection; it also bounds the uses of a
\* stream id and the Data frames of a stream
MaxFrames == 2
\* frames of the pass-through types the two peers send
MaxCtl == 1
\* capacity of the mocks channel
ChanCap == 1
\* frames a peer has sent that its loop has not read yet
MaxInFlight == 1

----------------------------------------------------------------------------
(* Strings are sequences of characters, so that strings.HasPrefix computes. *)

grpcPrefix == <<"g", "r", "p", "c", "-">>

KeyGrpcStatus == grpcPrefix \o <<"s", "t", "a", "t", "u", "s">>
KeyGrpcMessage == grpcPrefix \o <<"m", "e", "s", "s", "a", "g", "e">>
KeyGrpcEncoding == grpcPrefix \o <<"e", "n", "c", "o", "d", "i", "n", "g">>
KeyGrpcOnly == grpcPrefix
KeyGrpcNoDash == <<"g", "r", "p", "c">>
KeyXGrpc == <<"x", "-">> \o grpcPrefix \o <<"i", "d">>
KeyStatus == <<":", "s", "t", "a", "t", "u", "s">>
KeyPath == <<":", "p", "a", "t", "h">>
KeyMethod == <<":", "m", "e", "t", "h", "o", "d">>
KeyTe == <<"t", "e">>
KeyContentType == <<"c", "o", "n", "t", "e", "n", "t", "-", "t", "y", "p", "e">>

\* strings.HasPrefix(s, prefix)
HasPrefix(s, prefix) ==
    /\ Len(s) >= Len(prefix)
    /\ SubSeq(s, 1, Len(prefix)) = prefix

EmptyMap == [k \in {} |-> 0]

\* m[k] = v on a Go map
MapPut(m, k, v) == [x \in DOMAIN m \cup {k} |-> IF x = k THEN v ELSE m[x]]

\* for k, v := range src { dst[k] = v }
MapMerge(dst, src) ==
    [x \in DOMAIN dst \cup DOMAIN src |-> IF x \in DOMAIN src THEN src[x] ELSE dst[x]]

MapRestrict(m, keys) == [x \in keys |-> m[x]]

----------------------------------------------------------------------------
(* splitGrpcTrailerHeaders *)

splitGrpcTrailerHeaders_KeepsNormal(headers) ==
    [normal |-> headers,
     trailer |-> MapRestrict(headers, {k \in DOMAIN headers : HasPrefix(k, grpcPrefix)})]

splitGrpcTrailerHeaders(headers) ==
    [normal |-> MapRestrict(headers, {k \in DOMAIN headers : ~HasPrefix(k, grpcPrefix)}),
     trailer |-> MapRestrict(headers, {k \in DOMAIN headers : HasPrefix(k, grpcPrefix)})]

----------------------------------------------------------------------------
(* extractHeaders: hpack DecodeFull of the frame's fragment, then the split *)
(* into pseudo and ordinary headers.  A fragment is the list of header      *)
(* fields it encodes; a truncated fragment makes DecodeFull fail.           *)

\* hpack.HeaderField.IsPseudo
IsPseudo(name) == Len(name) # 0 /\ name[1] = ":"

RECURSIVE FieldsToMap(_, _)
FieldsToMap(hf, pseudo) ==
    IF hf = <<>> THEN EmptyMap
    ELSE LET front == FieldsToMap(SubSeq(hf, 1, Len(hf) - 1), pseudo)
             header == hf[Len(hf)]
         IN  IF IsPseudo(header.name) = pseudo
             THEN MapPut(front, header.name, header.value)
             ELSE front

DecodeFails(frame) == frame.frag.truncated

\* decoder.DecodeFull(p): the decoder consumes the fragment p
DecodeFull(dec, frag) == [n |-> dec.n + 1, last |-> frag]

extractHeaders(frame) ==
    [pseudoHeaders |-> FieldsToMap(frame.frag.fields, TRUE),
     ordinaryHeaders |-> FieldsToMap(frame.frag.fields, FALSE)]

----------------------------------------------------------------------------
(* Frames.  Headers and Data frames carry, besides their wire fields, the   *)
(* use of the stream id they belong to (the 1st, 2nd, ... stream opened     *)
(* with that id); header values and payload bytes are tagged with it.       *)

Dirs == {"req", "resp"}
StreamIds == {1, 3}
Uses == 1 .. MaxFrames

HandledTypes == {"Settings", "Headers", "Data", "Ping", "WindowUpdate",
                 "Continuation", "Priority", "RSTStream", "GoAway", "PushPromise"}

\* the frame types that carry a header-block fragment
HeaderBlockTypes == {"Headers", "Continuation", "PushPromise"}

\* the two fields of the collection transferFrame assigns
TimestampFields == {"ReqTimestampMock", "ResTimestampMock"}

NoFrame == [type |-> "none", sid |-> 0]

Field(n, v) == [name |-> n, value |-> v]

\* What the switch of transferFrame writes to lhs for a frame read from rhs.
Forward(frame) ==
    CASE frame.type = "Settings" ->
            IF frame.ack
            THEN [type |-> "Settings", sid |-> 0, ack |-> TRUE, settings |-> <<>>]
            ELSE [type |-> "Settings", sid |-> 0, ack |-> FALSE,
                  settings |-> frame.settings]
      [] frame.type = "Headers" -> [frame EXCEPT !.padLen = 0]
      [] frame.type = "Data" -> [frame EXCEPT !.padLen = 0]
      [] frame.type = "Ping" ->
            [type |-> "Ping", sid |-> 0, ack |-> frame.ack, data |-> frame.data]
      [] frame.type = "WindowUpdate" ->
            [type |-> "WindowUpdate", sid |-> frame.sid,
             increment |-> frame.increment]
      [] frame.type = "Continuation" ->
            [type |-> "Continuation", sid |-> frame.sid,
             endHeaders |-> frame.endHeaders, frag |-> frame.frag]
      [] frame.type = "Priority" ->
            [type |-> "Priority", sid |-> frame.sid, priority |-> frame.priority]
      [] frame.type = "RSTStream" ->
            [type |-> "RSTStream", sid |-> frame.sid, errCode |-> frame.errCode]
      [] frame.type = "GoAway" ->
            \* WriteGoAway(maxStreamID, code, debugData) is given the frame
            \* header's StreamID, not the frame's LastStreamID
            [type |-> "GoAway", sid |-> 0, lastStreamID |-> frame.sid,
             errCode |-> frame.errCode, debugData |-> frame.debugData]
      [] frame.type = "PushPromise" -> [frame EXCEPT !.padLen = 0]

----------------------------------------------------------------------------
(* StreamInfoCollection: per stream id a StreamRecord, and the two          *)
(* timestamp fields transferFrame assigns.  Each operation below is one     *)
(* critical section of the store.                                           *)

NoHeaders == [pseudo |-> EmptyMap, ordinary |-> EmptyMap]

NewStreamInfo ==
    [reqHeaders |-> NoHeaders, respHeaders |-> NoHeaders,
     respTrailers |-> NoHeaders, reqPayload |-> <<>>, respPayload |-> <<>>]

\* a time.Time is more than one machine word; two of them are kept here:
\* the wall clock and the monotonic reading
Time(t) == <<t, t>>

ZeroTime == Time(0)

NewStreamInfoCollection ==
    [StreamInfo |-> EmptyMap, ReqTimestampMock |-> ZeroTime,
     ResTimestampMock |-> ZeroTime]

\* the record of id, created on first reference
StreamOf(s, id) ==
    IF id \in DOMAIN s.StreamInfo THEN s.StreamInfo[id] ELSE NewStreamInfo

PutStream(s, id, rec) == [s EXCEPT !.StreamInfo = MapPut(s.StreamInfo, id, rec)]

AddTo(h, headers, isPseudo) ==
    IF isPseudo THEN [h EXCEPT !.pseudo = MapMerge(h.pseudo, headers)]
    ELSE [h EXCEPT !.ordinary = MapMerge(h.ordinary, headers)]

AddHeadersForRequest(s, id, headers, isPseudo) ==
    LET rec == StreamOf(s, id)
    IN  PutStream(s, id, [rec EXCEPT !.reqHeaders = AddTo(rec.reqHeaders, headers, isPseudo)])

AddHeadersForResponse(s, id, headers, isPseudo, isTrailer) ==
    LET rec == StreamOf(s, id)
    IN  IF isTrailer
        THEN PutStream(s, id, [rec EXCEPT !.respTrailers =
                                   AddTo(rec.respTrailers, headers, isPseudo)])
        ELSE PutStream(s, id, [rec EXCEPT !.respHeaders =
                                   AddTo(rec.respHeaders, headers, isPseudo)])

AddPayloadForRequest(s, id, bytes) ==
    LET rec == StreamOf(s, id)
    IN  PutStream(s, id, [rec EXCEPT !.reqPayload = rec.reqPayload \o bytes])

AddPayloadForResponse(s, id, bytes) ==
    LET rec == StreamOf(s, id)
    IN  PutStream(s, id, [rec EXCEPT !.respPayload = rec.respPayload \o bytes])

\* the Mock PersistMockForStream assembles for id
MockOf(s, id) ==
    [sid |-> id, rec |-> StreamOf(s, id),
     reqTimestamp |-> s.ReqTimestampMock, resTimestamp |-> s.ResTimestampMock]

ResetStream(s, id) ==
    [s EXCEPT !.StreamInfo = MapRestrict(s.StreamInfo, DOMAIN s.StreamInfo \ {id})]

----------------------------------------------------------------------------
(* The store calls transferFrame makes for a frame, in program order.       *)

Call(op, id, headers, isPseudo, isTrailer, data) ==
    [op |-> op, id |-> id, headers |-> headers, isPseudo |-> isPseudo,
     isTrailer |-> isTrailer, data |-> data]

SimpleCall(op, id) == Call(op, id, EmptyMap, FALSE, FALSE, <<>>)

\* if respFromServer && headersFrame.StreamEnded()
PersistCond_AnyEndStream(reqFromClient, frame) == frame.endStream

PersistCond_AnyResponseHeaders(reqFromClient, frame) == ~reqFromClient

PersistCond(reqFromClient, frame) == ~reqFromClient /\ frame.endStream

HeadersCalls_SplitsAlways(reqFromClient, frame) ==
    LET h == extractHeaders(frame)
        id == frame.sid
        pseudoSplit == splitGrpcTrailerHeaders(h.pseudoHeaders)
        ordinarySplit == splitGrpcTrailerHeaders(h.ordinaryHeaders)
        adds ==
            IF reqFromClient
            THEN << Call("AddHeadersForRequest", id, h.pseudoHeaders, TRUE, FALSE, <<>>),
                    Call("AddHeadersForRequest", id, h.ordinaryHeaders, FALSE, FALSE, <<>>) >>
            ELSE << Call("AddHeadersForResponse", id, pseudoSplit.normal, TRUE, FALSE, <<>>),
                    Call("AddHeadersForResponse", id, ordinarySplit.normal, FALSE, FALSE, <<>>),
                    Call("AddHeadersForResponse", id, pseudoSplit.trailer, TRUE, TRUE, <<>>),
                    Call("AddHeadersForResponse", id, ordinarySplit.trailer, FALSE, TRUE, <<>>) >>
    IN  adds \o (IF PersistCond(reqFromClient, frame)
                 THEN << SimpleCall("PersistMockForStream", id),
                         SimpleCall("ResetStream", id) >>
                 ELSE <<>>)

\* case *http2.HeadersFrame, after extractHeaders
HeadersCalls(reqFromClient, frame) ==
    LET h == extractHeaders(frame)
        id == frame.sid
        pseudoSplit == splitGrpcTrailerHeaders(h.pseudoHeaders)
        ordinarySplit == splitGrpcTrailerHeaders(h.ordinaryHeaders)
        adds ==
            IF reqFromClient
            THEN << Call("AddHeadersForRequest", id, h.pseudoHeaders, TRUE, FALSE, <<>>),
                    Call("AddHeadersForRequest", id, h.ordinaryHeaders, FALSE, FALSE, <<>>) >>
            ELSE IF frame.endStream
            THEN << Call("AddHeadersForResponse", id, pseudoSplit.normal, TRUE, FALSE, <<>>),
                    Call("AddHeadersForResponse", id, ordinarySplit.normal, FALSE, FALSE, <<>>),
                    Call("AddHeadersForResponse", id, pseudoSplit.trailer, TRUE, TRUE, <<>>),
                    Call("AddHeadersForResponse", id, ordinarySplit.trailer, FALSE, TRUE, <<>>) >>
            ELSE << Call("AddHeadersForResponse", id, h.pseudoHeaders, TRUE, FALSE, <<>>),
                    Call("AddHeadersForResponse", id, h.ordinaryHeaders, FALSE, FALSE, <<>>) >>
    IN  adds \o (IF PersistCond(reqFromClient, frame)
                 THEN << SimpleCall("PersistMockForStream", id),
                         SimpleCall("ResetStream", id) >>
                 ELSE <<>>)

\* case *http2.DataFrame, after WriteData
DataCalls(reqFromClient, frame) ==
    IF reqFromClient
    THEN << SimpleCall("ReqTimestampMock", frame.sid),
            Call("AddPayloadForRequest", frame.sid, EmptyMap, FALSE, FALSE, frame.data) >>
    ELSE << SimpleCall("ResTimestampMock", frame.sid),
            Call("AddPayloadForResponse", frame.sid, EmptyMap, FALSE, FALSE, frame.data) >>

\* the effect of one call other than PersistMockForStream on the store; the
\* assignment of a timestamp field completes here, with the time in c.data
Apply(s, c) ==
    CASE c.op = "AddHeadersForRequest" ->
            AddHeadersForRequest(s, c.id, c.headers, c.isPseudo)
      [] c.op = "AddHeadersForResponse" ->
            AddHeadersForResponse(s, c.id, c.headers, c.isPseudo, c.isTrailer)
      [] c.op = "ReqTimestampMock" -> [s EXCEPT !.ReqTimestampMock = c.data]
      [] c.op = "ResTimestampMock" -> [s EXCEPT !.ResTimestampMock = c.data]
      [] c.op = "AddPayloadForRequest" -> AddPayloadForRequest(s, c.id, c.data)
      [] c.op = "AddPayloadForResponse" -> AddPayloadForResponse(s, c.id, c.data)
      [] c.op = "ResetStream" -> ResetStream(s, c.id)

----------------------------------------------------------------------------
(* Errors are sequences of strings: fmt.Errorf wraps by prefixing its text. *)

NoErr == <<>>
EOF == <<"EOF">>
ErrUnexpectedEOF == <<"unexpected EOF">>
ErrConnReset == <<"connection reset by peer">>
ErrClosedPipe == <<"io: read/write on closed pipe">>
ErrDecode == <<"could not decode headers">>
ctxErr == <<"context canceled">>

\* the error ReadFrame returns once rhs has nothing more to deliver
ConnErr(c) ==
    CASE c = "eof" -> EOF
      [] c = "cut" -> ErrUnexpectedEOF
      [] c = "reset" -> ErrConnReset

\* if err == io.EOF { return err }; return fmt.Errorf("error reading frame %v", err)
ReadErrorReturn_WrapsAll(err) == <<"error reading frame">> \o err

ReadErrorReturn(err) ==
    IF err = EOF THEN err ELSE <<"error reading frame">> \o err

\* return fmt.Errorf("could not write ... frame: %v", err)
WriteErrorReturn(frame, err) == <<"could not write frame", frame.type>> \o err

\* return fmt.Errorf("could not extract headers from frame: %v", err)
ExtractErrorReturn(err) == <<"could not extract headers from frame">> \o err

----------------------------------------------------------------------------
(* The peers.  The client opens use k+1 of a stream id only after it has    *)
(* received the END_STREAM Headers of use k; the server answers use k only  *)
(* after it has received the request Headers of use k.                      *)

Frag(fields, truncated) == [fields |-> fields, truncated |-> truncated]

NoPriority == [streamDep |-> 0, exclusive |-> FALSE, weight |-> 0]

HeadersFrame(id, k, endStream, endHeaders, padLen, frag) ==
    [type |-> "Headers", sid |-> id, use |-> k, endStream |-> endStream,
     endHeaders |-> endHeaders, padLen |-> padLen, priority |-> NoPriority,
     frag |-> frag]

DataFrame(id, k, endStream, padLen, data) ==
    [type |-> "Data", sid |-> id, use |-> k, endStream |-> endStream,
     padLen |-> padLen, data |-> data]

ContinuationFrame(id, frag) ==
    [type |-> "Continuation", sid |-> id, endHeaders |-> TRUE, frag |-> frag]

\* payload bytes of the n-th Data frame of use k
Bytes(k, n) == <<10 * k + n>>

ReqFields(k) == <<Field(KeyMethod, k), Field(KeyPath, k), Field(KeyTe, k)>>

RespFields(k) ==
    <<Field(KeyStatus, k), Field(KeyContentType, k), Field(KeyGrpcEncoding, k)>>

TrailerFields(k) == <<Field(KeyGrpcStatus, k), Field(KeyXGrpc, k)>>

\* frames of the types transferFrame only forwards, and one of a type it
\* does not know; only the server sends PushPromise
CtlFrames ==
    { [type |-> "Settings", sid |-> 0, ack |-> TRUE, settings |-> <<>>],
      [type |-> "Settings", sid |-> 0, ack |-> FALSE,
       settings |-> <<[id |-> 3, val |-> 100], [id |-> 4, val |-> 65535]>>],
      [type |-> "Ping", sid |-> 0, ack |-> FALSE, data |-> 7],
      [type |-> "WindowUpdate", sid |-> 0, increment |-> 5],
      [type |-> "Priority", sid |-> 1,
       priority |-> [streamDep |-> 0, exclusive |-> TRUE, weight |-> 15]],
      [type |-> "RSTStream", sid |-> 1, errCode |-> 8],
      [type |-> "GoAway", sid |-> 0, lastStreamID |-> 0, errCode |-> 0,
       debugData |-> <<>>],
      [type |-> "GoAway", sid |-> 0, lastStreamID |-> 1, errCode |-> 2,
       debugData |-> <<100>>],
      [type |-> "PushPromise", sid |-> 1, promiseID |-> 2, endHeaders |-> TRUE,
       padLen |-> 1, frag |-> Frag(ReqFields(1), FALSE)],
      [type |-> "Unknown", sid |-> 0, payload |-> <<9>>] }

ClientHeaders(id) ==
    LET k == cli[id].use + 1
    IN  IF id \in ids /\ k \in Uses /\ (k = 1 \/ cliSaw[id] >= k - 1)
        THEN { HeadersFrame(id, k, FALSE, TRUE, 0, Frag(ReqFields(k), FALSE)),
               HeadersFrame(id, k, TRUE, TRUE, 1, Frag(ReqFields(k), FALSE)),
               HeadersFrame(id, k, FALSE, FALSE, 0, Frag(SubSeq(ReqFields(k), 1, 1), FALSE)),
               HeadersFrame(id, k, FALSE, TRUE, 0, Frag(ReqFields(k), TRUE)) }
        ELSE {}

ClientData(id) ==
    LET k == cli[id].use
    IN  IF k >= 1 /\ ~cli[id].ended /\ cli[id].data < MaxFrames /\ cliSaw[id] < k
        THEN { DataFrame(id, k, e, IF e THEN 1 ELSE 0, Bytes(k, cli[id].data + 1)) :
                 e \in BOOLEAN }
        ELSE {}

ServerHeaders(id) ==
    LET k == srv[id].use
    IN  IF k \in Uses /\ srvSaw[id] >= k /\ ~srv[id].hdr
        THEN { HeadersFrame(id, k, FALSE, TRUE, 0, Frag(RespFields(k), FALSE)) }
        ELSE {}

ServerData(id) ==
    LET k == srv[id].use
    IN  IF k \in Uses /\ srv[id].hdr /\ srv[id].data < MaxFrames
        THEN { DataFrame(id, k, FALSE, 0, Bytes(k, srv[id].data + 1)) }
        ELSE {}

ServerTrailers(id) ==
    LET k == srv[id].use
    IN  IF k \in Uses /\ srvSaw[id] >= k
        THEN { HeadersFrame(id, k, TRUE, TRUE, 1,
                            Frag(IF srv[id].hdr THEN TrailerFields(k)
                                 ELSE RespFields(k) \o TrailerFields(k), t)) :
                 t \in BOOLEAN }
        ELSE {}

\* the frames the peer of loop d may send next
PeerFrames(d) ==
    IF cont[d] # 0
    THEN { ContinuationFrame(cont[d], Frag(Tail(ReqFields(cli[cont[d]].use)), FALSE)) }
    ELSE (IF nCtl < MaxCtl
          THEN { f \in CtlFrames : f.type = "PushPromise" => d = "resp" }
          ELSE {})
         \cup UNION { IF d = "req" THEN ClientHeaders(id) \cup ClientData(id)
                      ELSE ServerHeaders(id) \cup ServerData(id) \cup ServerTrailers(id) :
                      id \in StreamIds }

----------------------------------------------------------------------------
(* Initial state: both loops at the top of their for loop, nothing sent.    *)

NoStamp == [sid |-> 0, time |-> ZeroTime]

NoStamps == [ReqTimestampMock |-> NoStamp, ResTimestampMock |-> NoStamp]

NoMock == [sent |-> FALSE, dir |-> "none", frame |-> NoFrame,
           mock |-> MockOf(NewStreamInfoCollection, 0), fwdAtRead |-> <<>>,
           stamped |-> NoStamps]

NewDecoder == [n |-> 0, last |-> Frag(<<>>, FALSE)]

\* ctl: the pass-through frames the peers have already used up; open: the
\* stream ids the client opens
RelayInit(ctl, open) ==
    /\ ctxDone = FALSE
    /\ pc = [d \in Dirs |-> "select"]
    /\ cur = [d \in Dirs |-> NoFrame]
    /\ todo = [d \in Dirs |-> <<>>]
    /\ ret = [d \in Dirs |-> NoErr]
    /\ readErr = [d \in Dirs |-> NoErr]
    /\ inq = [d \in Dirs |-> <<>>]
    /\ conn = [d \in Dirs |-> "open"]
    /\ lastOut = [d \in Dirs |-> NoFrame]
    /\ nOut = [d \in Dirs |-> 0]
    /\ nRd = [d \in Dirs |-> 0]
    /\ ops = [d \in Dirs |-> <<>>]
    /\ decoder = [d \in Dirs |-> NewDecoder]
    /\ nFrag = [d \in Dirs |-> 0]
    /\ sic = NewStreamInfoCollection
    /\ now = 0
    /\ chanLen = 0
    /\ lastMock = NoMock
    /\ life = [id \in StreamIds |->
                 [k \in Uses |-> [persisted |-> 0, sent |-> 0, reset |-> 0]]]
    /\ fwd = [id \in StreamIds |-> [use |-> 0, payload |-> <<>>]]
    /\ fwdAtRead = <<>>
    /\ cli = [id \in StreamIds |-> [use |-> 0, data |-> 0, ended |-> FALSE]]
    /\ srv = [id \in StreamIds |-> [use |-> 1, hdr |-> FALSE, data |-> 0]]
    /\ srvSaw = [id \in StreamIds |-> 0]
    /\ cliSaw = [id \in StreamIds |-> 0]
    /\ nSent = [d \in Dirs |-> 0]
    /\ nCtl = ctl
    /\ cont = [d \in Dirs |-> 0]
    /\ ids = open
    /\ stamped = NoStamps

Init ==
    /\ RelayInit(0, {1})
    /\ splitIn = EmptyMap
    /\ splitOut = splitGrpcTrailerHeaders(EmptyMap)
    /\ splitDone = FALSE

----------------------------------------------------------------------------
(* The peers, the context and the receiver of the mocks channel.            *)

\* what sending frame f does to the sender's own state
AfterSend(d, f) ==
    /\ nSent' = [nSent EXCEPT ![d] = @ + 1]
    /\ nCtl' = IF f.type \in {"Headers", "Data", "Continuation"} THEN nCtl
               ELSE nCtl + 1
    /\ cont' = [cont EXCEPT ![d] =
                   IF f.type = "Headers" /\ ~f.endHeaders THEN f.sid ELSE 0]
    /\ cli' = IF d = "req" /\ f.type = "Headers"
              THEN [cli EXCEPT ![f.sid] = [use |-> f.use, data |-> 0, ended |-> f.endStream]]
              ELSE IF d = "req" /\ f.type = "Data"
              THEN [cli EXCEPT ![f.sid] = [@ EXCEPT !.data = @ + 1, !.ended = f.endStream]]
              ELSE cli
    /\ srv' = IF d = "resp" /\ f.type = "Headers"
              THEN [srv EXCEPT ![f.sid] =
                       IF f.endStream THEN [use |-> @.use + 1, hdr |-> FALSE, data |-> 0]
                       ELSE [@ EXCEPT !.hdr = TRUE]]
              ELSE IF d = "resp" /\ f.type = "Data"
              THEN [srv EXCEPT ![f.sid] = [@ EXCEPT !.data = @ + 1]]
              ELSE srv

\* the peer of loop d sends a frame on rhs
PeerSend(d) ==
    /\ conn[d] = "open"
    /\ nSent[d] < MaxFrames
    /\ Len(inq[d]) < MaxInFlight
    /\ \E f \in PeerFrames(d) :
          /\ inq' = [inq EXCEPT ![d] = Append(@, f)]
          /\ AfterSend(d, f)
    /\ UNCHANGED <<ctxDone, loopVars, storeVars, conn, fwd, fwdAtRead, srvSaw,
                   cliSaw, ids, splitVars>>

\* the caller cancels ctx
Cancel ==
    /\ ~ctxDone
    /\ ctxDone' = TRUE
    /\ UNCHANGED <<loopVars, storeVars, peerVars, splitVars>>

\* the consumer of the mocks channel receives one Mock
ReceiveMock ==
    /\ chanLen > 0
    /\ chanLen' = chanLen - 1
    /\ UNCHANGED <<ctxDone, loopVars, sic, now, lastMock, life, stamped, peerVars,
                   splitVars>>

----------------------------------------------------------------------------
(* transferFrame, one loop per direction: d = "req" is reqFromClient.       *)

Max(a, b) == IF a >= b THEN a ELSE b

\* return err
Return(d, err) ==
    /\ pc' = [pc EXCEPT ![d] = "done"]
    /\ ret' = [ret EXCEPT ![d] = err]

\* select { case <-ctx.Done(): return ctx.Err(); default: ... }
SelectCtx_IgnoresDone(d) ==
    /\ pc[d] = "select"
    /\ pc' = [pc EXCEPT ![d] = "read"]
    /\ UNCHANGED <<ctxDone, cur, todo, ret, readErr, lastOut, nOut, nRd, ops,
                   decoder, nFrag, storeVars, peerVars, splitVars>>

SelectCtx(d) ==
    /\ pc[d] = "select"
    /\ IF ctxDone THEN Return(d, ctxErr)
       ELSE pc' = [pc EXCEPT ![d] = "read"] /\ ret' = ret
    /\ UNCHANGED <<ctxDone, cur, todo, readErr, lastOut, nOut, nRd, ops,
                   decoder, nFrag, storeVars, peerVars, splitVars>>

ReadFrame_FailsOnUnknown(d) ==
    /\ pc[d] = "read"
    /\ inq[d] # <<>>
    /\ LET frame == Head(inq[d])
       IN  /\ cur' = [cur EXCEPT ![d] = frame]
           /\ inq' = [inq EXCEPT ![d] = Tail(@)]
           /\ nRd' = [nRd EXCEPT ![d] = IF frame.type \in HandledTypes THEN @ + 1 ELSE @]
           /\ IF frame.type \in HandledTypes
              THEN pc' = [pc EXCEPT ![d] = "write"] /\ ret' = ret
              ELSE Return(d, <<"unknown frame type">>)
           /\ fwdAtRead' = IF d = "resp" /\ frame.type = "Headers"
                            THEN (IF fwd[frame.sid].use = frame.use
                                  THEN fwd[frame.sid].payload ELSE <<>>)
                            ELSE fwdAtRead
           /\ nFrag' = [nFrag EXCEPT ![d] =
                           IF frame.type \in HeaderBlockTypes THEN @ + 1 ELSE @]
    /\ ops' = [ops EXCEPT ![d] = <<>>]
    /\ UNCHANGED <<ctxDone, todo, readErr, lastOut, nOut, decoder, storeVars,
                   conn, fwd, cli, srv, srvSaw, cliSaw, nSent, nCtl, cont, ids,
                   splitVars>>

\* frame, err := framer.ReadFrame() with err == nil, and the type switch
ReadFrame(d) ==
    /\ pc[d] = "read"
    /\ inq[d] # <<>>
    /\ LET frame == Head(inq[d])
       IN  /\ cur' = [cur EXCEPT ![d] = frame]
           /\ inq' = [inq EXCEPT ![d] = Tail(@)]
           /\ nRd' = [nRd EXCEPT ![d] = IF frame.type \in HandledTypes THEN @ + 1 ELSE @]
           /\ pc' = [pc EXCEPT ![d] =
                        IF frame.type \in HandledTypes THEN "write" ELSE "select"]
           /\ fwdAtRead' = IF d = "resp" /\ frame.type = "Headers"
                            THEN (IF fwd[frame.sid].use = frame.use
                                  THEN fwd[frame.sid].payload ELSE <<>>)
                            ELSE fwdAtRead
           /\ nFrag' = [nFrag EXCEPT ![d] =
                           IF frame.type \in HeaderBlockTypes THEN @ + 1 ELSE @]
    /\ ops' = [ops EXCEPT ![d] = <<>>]
    /\ UNCHANGED <<ctxDone, todo, ret, readErr, lastOut, nOut, decoder, storeVars,
                   conn, fwd, cli, srv, srvSaw, cliSaw, nSent, nCtl, cont, ids,
                   splitVars>>

\* frame, err := framer.ReadFrame() with err != nil: rhs has been closed
\* cleanly, closed inside a frame, or reset, and nothing is left to read
ReadFrameFails(d) ==
    /\ pc[d] = "read"
    /\ inq[d] = <<>>
    /\ \E c \in {"eof", "cut", "reset"} :
          /\ conn' = [conn EXCEPT ![d] = c]
          /\ readErr' = [readErr EXCEPT ![d] = ConnErr(c)]
          /\ Return(d, ReadErrorReturn(ConnErr(c)))
    /\ UNCHANGED <<ctxDone, cur, todo, lastOut, nOut, nRd, ops, decoder, nFrag,
                   storeVars, inq, fwd, fwdAtRead, cli, srv, srvSaw, cliSaw, nSent,
                   nCtl, cont, ids, splitVars>>

\* what the peers learn from the frame written to lhs
Delivered(d, frame) ==
    /\ srvSaw' = IF d = "req" /\ frame.type = "Headers"
                 THEN [srvSaw EXCEPT ![frame.sid] = Max(@, frame.use)] ELSE srvSaw
    /\ cliSaw' = IF d = "resp" /\ frame.type = "Headers" /\ frame.endStream
                 THEN [cliSaw EXCEPT ![frame.sid] = Max(@, frame.use)] ELSE cliSaw
    /\ fwd' = IF d = "req" /\ frame.type = "Headers"
              THEN [fwd EXCEPT ![frame.sid] = [use |-> frame.use, payload |-> <<>>]]
              ELSE IF d = "req" /\ frame.type = "Data"
              THEN [fwd EXCEPT ![frame.sid] =
                       IF @.use = frame.use
                       THEN [@ EXCEPT !.payload = @ \o frame.data]
                       ELSE [use |-> frame.use, payload |-> frame.data]]
              ELSE fwd

WriteFrame_Deferred(d) ==
    /\ pc[d] = "write"
    /\ pc' = [pc EXCEPT ![d] =
                 CASE cur[d].type = "Headers" -> "extract"
                   [] cur[d].type = "Data" -> "store"
                   [] OTHER -> "select"]
    /\ todo' = [todo EXCEPT ![d] =
                   IF cur[d].type = "Data" THEN DataCalls(d = "req", cur[d]) ELSE <<>>]
    /\ UNCHANGED <<ctxDone, cur, ret, readErr, lastOut, nOut, nRd, ops, decoder,
                   nFrag, storeVars, peerVars, splitVars>>

\* the framer.Write... call of the frame's case succeeds
WriteFrame(d) ==
    /\ pc[d] = "write"
    /\ lastOut' = [lastOut EXCEPT ![d] = Forward(cur[d])]
    /\ nOut' = [nOut EXCEPT ![d] = @ + 1]
    /\ Delivered(d, Forward(cur[d]))
    /\ pc' = [pc EXCEPT ![d] =
                 CASE cur[d].type = "Headers" -> "extract"
                   [] cur[d].type = "Data" -> "store"
                   [] OTHER -> "select"]
    /\ todo' = [todo EXCEPT ![d] =
                   IF cur[d].type = "Data" THEN DataCalls(d = "req", cur[d]) ELSE <<>>]
    /\ UNCHANGED <<ctxDone, cur, ret, readErr, nRd, ops, decoder, nFrag,
                   storeVars, inq, conn, fwdAtRead, cli, srv, nSent, nCtl, cont,
                   ids, splitVars>>

WriteFrameFails_Continues(d) ==
    /\ pc[d] = "write"
    /\ pc' = [pc EXCEPT ![d] =
                 CASE cur[d].type = "Headers" -> "extract"
                   [] cur[d].type = "Data" -> "store"
                   [] OTHER -> "select"]
    /\ todo' = [todo EXCEPT ![d] =
                   IF cur[d].type = "Data" THEN DataCalls(d = "req", cur[d]) ELSE <<>>]
    /\ UNCHANGED <<ctxDone, cur, ret, readErr, lastOut, nOut, nRd, ops, decoder,
                   nFrag, storeVars, peerVars, splitVars>>

\* the framer.Write... call of the frame's case fails
WriteFrameFails(d) ==
    /\ pc[d] = "write"
    /\ Return(d, WriteErrorReturn(cur[d], ErrClosedPipe))
    /\ UNCHANGED <<ctxDone, cur, todo, readErr, lastOut, nOut, nRd, ops,
                   decoder, nFrag, storeVars, peerVars, splitVars>>

ExtractHeaders_IgnoresError(d) ==
    /\ pc[d] = "extract"
    /\ decoder' = [decoder EXCEPT ![d] = DecodeFull(@, cur[d].frag)]
    /\ todo' = [todo EXCEPT ![d] = HeadersCalls(d = "req", cur[d])]
    /\ pc' = [pc EXCEPT ![d] = "store"]
    /\ UNCHANGED <<ctxDone, cur, ret, readErr, lastOut, nOut, nRd, ops, nFrag,
                   storeVars, peerVars, splitVars>>

\* pseudoHeaders, ordinaryHeaders, err := extractHeaders(headersFrame, decoder)
ExtractHeaders(d) ==
    /\ pc[d] = "extract"
    /\ decoder' = [decoder EXCEPT ![d] = DecodeFull(@, cur[d].frag)]
    /\ IF DecodeFails(cur[d])
       THEN Return(d, ExtractErrorReturn(ErrDecode)) /\ todo' = todo
       ELSE /\ todo' = [todo EXCEPT ![d] = HeadersCalls(d = "req", cur[d])]
            /\ pc' = [pc EXCEPT ![d] = "store"]
            /\ ret' = ret
    /\ UNCHANGED <<ctxDone, cur, readErr, lastOut, nOut, nRd, ops, nFrag,
                   storeVars, peerVars, splitVars>>

\* the loop has made call c; sent tells whether a Mock went out
Made(d, c, sent) ==
    /\ ops' = [ops EXCEPT ![d] = Append(@, [call |-> c, op |-> c.op, id |-> c.id,
                                            sent |-> sent])]
    /\ todo' = [todo EXCEPT ![d] = Tail(@)]
    /\ pc' = [pc EXCEPT ![d] = IF Tail(todo[d]) = <<>> THEN "select" ELSE "store"]

\* sic.ReqTimestampMock = time.Now() (sic.ResTimestampMock likewise) is a
\* plain assignment to a field of the shared collection, made outside the
\* store's operations: it reads the clock and writes the first word here and
\* the rest in StoreCall, and the other loop may read the field in between
StampBegins(d) ==
    /\ pc[d] = "store"
    /\ LET c == Head(todo[d])
           t == Time(now + 1)
       IN  /\ c.op \in TimestampFields
           /\ c.data = <<>>
           /\ now' = now + 1
           /\ sic' = [sic EXCEPT ![c.op] = <<t[1], @[2]>>]
           /\ stamped' = [stamped EXCEPT ![c.op] = [sid |-> c.id, time |-> t]]
           /\ todo' = [todo EXCEPT ![d] = <<[c EXCEPT !.data = t]>> \o Tail(@)]
    /\ UNCHANGED <<ctxDone, pc, cur, ret, readErr, lastOut, nOut, nRd, ops,
                   decoder, nFrag, chanLen, lastMock, life, peerVars, splitVars>>

\* the next store call of the frame, other than PersistMockForStream
StoreCall(d) ==
    /\ pc[d] = "store"
    /\ LET c == Head(todo[d])
       IN  /\ c.op # "PersistMockForStream"
           /\ c.op \in TimestampFields => c.data # <<>>
           /\ sic' = Apply(sic, c)
           /\ life' = IF c.op = "ResetStream"
                      THEN [life EXCEPT ![c.id][cur[d].use].reset = @ + 1] ELSE life
           /\ Made(d, c, FALSE)
    /\ UNCHANGED <<ctxDone, cur, ret, readErr, lastOut, nOut, nRd, decoder, nFrag,
                   now, chanLen, lastMock, stamped, peerVars, splitVars>>

\* sic.PersistMockForStream(ctx, streamID, mocks): the Mock is sent
PersistSends(d) ==
    /\ pc[d] = "store"
    /\ LET c == Head(todo[d])
       IN  /\ c.op = "PersistMockForStream"
           /\ chanLen < ChanCap
           /\ chanLen' = chanLen + 1
           /\ lastMock' = [sent |-> TRUE, dir |-> d, frame |-> cur[d],
                           mock |-> MockOf(sic, c.id), fwdAtRead |-> fwdAtRead,
                           stamped |-> stamped]
           /\ life' = [life EXCEPT ![c.id][cur[d].use].persisted = @ + 1,
                                   ![c.id][cur[d].use].sent = @ + 1]
           /\ Made(d, c, TRUE)
    /\ UNCHANGED <<ctxDone, cur, ret, readErr, lastOut, nOut, nRd, decoder, nFrag,
                   sic, now, stamped, peerVars, splitVars>>

\* sic.PersistMockForStream(ctx, streamID, mocks): ctx is done, nothing is sent
PersistCancelled(d) ==
    /\ pc[d] = "store"
    /\ LET c == Head(todo[d])
       IN  /\ c.op = "PersistMockForStream"
           /\ ctxDone
           /\ life' = [life EXCEPT ![c.id][cur[d].use].persisted = @ + 1]
           /\ Made(d, c, FALSE)
    /\ UNCHANGED <<ctxDone, cur, ret, readErr, lastOut, nOut, nRd, decoder, nFrag,
                   sic, now, chanLen, lastMock, stamped, peerVars, splitVars>>

transferFrame(d) ==
    \/ SelectCtx(d)
    \/ ReadFrame(d)
    \/ ReadFrameFails(d)
    \/ WriteFrame(d)
    \/ WriteFrameFails(d)
    \/ ExtractHeaders(d)
    \/ StampBegins(d)
    \/ StoreCall(d)
    \/ PersistSends(d)
    \/ PersistCancelled(d)

Next ==
    \/ \E d \in Dirs : transferFrame(d)
    \/ \E d \in Dirs : PeerSend(d)
    \/ Cancel
    \/ ReceiveMock

Spec == Init /\ [][Next]_vars

----------------------------------------------------------------------------
(* splitGrpcTrailerHeaders on its own: called once on any header map over   *)
(* SplitKeys.                                                               *)

SplitKeys == {KeyGrpcStatus, KeyGrpcMessage, KeyGrpcOnly, KeyGrpcNoDash,
              KeyXGrpc, KeyStatus, KeyContentType}

SplitValues == {1, 2}

HeaderMaps == UNION { [keys -> SplitValues] : keys \in SUBSET SplitKeys }

SplitInit ==
    /\ RelayInit(0, {1})
    /\ splitIn \in HeaderMaps
    /\ splitOut = splitGrpcTrailerHeaders(EmptyMap)
    /\ splitDone = FALSE

SplitCall ==
    /\ ~splitDone
    /\ splitOut' = splitGrpcTrailerHeaders(splitIn)
    /\ splitDone' = TRUE
    /\ UNCHANGED <<ctxDone, loopVars, storeVars, peerVars, splitIn>>

SplitNext == SplitCall

SplitSpec == SplitInit /\ [][SplitNext]_vars

\* a step of loop d that does not wait for its peer to close rhs
Runs(d) ==
    \/ SelectCtx(d)
    \/ ReadFrame(d)
    \/ WriteFrame(d)
    \/ ExtractHeaders(d)
    \/ StampBegins(d)
    \/ StoreCall(d)
    \/ PersistSends(d)
    \/ PersistCancelled(d)

\* the relay of Headers, Data and Continuation frames only
FairInit ==
    /\ RelayInit(MaxCtl, {1})
    /\ splitIn = EmptyMap
    /\ splitOut = splitGrpcTrailerHeaders(EmptyMap)
    /\ splitDone = FALSE

\* the Go scheduler runs each loop whenever it can take a step
FairSpec == FairInit /\ [][Next]_vars /\ \A d \in Dirs : WF_vars(Runs(d))

\* the Headers frame that opens the last use of stream id
OpeningHeaders(id) ==
    HeadersFrame(id, MaxFrames, FALSE, TRUE, 0, Frag(ReqFields(MaxFrames), FALSE))

\* the store after the request loop has handled OpeningHeaders(id)
Opened(s, id) ==
    LET h == extractHeaders(OpeningHeaders(id))
    IN  AddHeadersForRequest(AddHeadersForRequest(s, id, h.pseudoHeaders, TRUE),
                             id, h.ordinaryHeaders, FALSE)

\* two stream ids multiplexed on the connection: the earlier uses of both
\* ids are over (one Mock each, records reset), the request loop has relayed
\* the opening Headers of the last use of stream 1 and of stream 3, both
\* loops are at the top of their for loop; no pass-through frames.  nSent
\* counts from here.
MuxInit ==
    /\ ctxDone = FALSE
    /\ pc = [d \in Dirs |-> "select"]
    /\ cur = [d \in Dirs |-> IF d = "req" THEN OpeningHeaders(3) ELSE NoFrame]
    /\ todo = [d \in Dirs |-> <<>>]
    /\ ret = [d \in Dirs |-> NoErr]
    /\ readErr = [d \in Dirs |-> NoErr]
    /\ inq = [d \in Dirs |-> <<>>]
    /\ conn = [d \in Dirs |-> "open"]
    /\ lastOut = [d \in Dirs |-> IF d = "req" THEN Forward(OpeningHeaders(3))
                                  ELSE NoFrame]
    /\ nOut = [d \in Dirs |-> IF d = "req" THEN 2 ELSE 0]
    /\ nRd = [d \in Dirs |-> IF d = "req" THEN 2 ELSE 0]
    /\ ops = [d \in Dirs |->
                IF d = "req"
                THEN [i \in 1 .. 2 |->
                        LET c == HeadersCalls(TRUE, OpeningHeaders(3))[i]
                        IN  [call |-> c, op |-> c.op, id |-> c.id, sent |-> FALSE]]
                ELSE <<>>]
    /\ decoder = [d \in Dirs |->
                    IF d = "req"
                    THEN DecodeFull(DecodeFull(NewDecoder, OpeningHeaders(1).frag),
                                    OpeningHeaders(3).frag)
                    ELSE NewDecoder]
    /\ nFrag = [d \in Dirs |-> IF d = "req" THEN 2 ELSE 0]
    /\ sic = Opened(Opened(NewStreamInfoCollection, 1), 3)
    /\ now = 0
    /\ chanLen = 0
    /\ lastMock = NoMock
    /\ life = [id \in StreamIds |->
                 [k \in Uses |->
                    IF k < MaxFrames THEN [persisted |-> 1, sent |-> 1, reset |-> 1]
                    ELSE [persisted |-> 0, sent |-> 0, reset |-> 0]]]
    /\ stamped = NoStamps
    /\ fwd = [id \in StreamIds |-> [use |-> MaxFrames, payload |-> <<>>]]
    /\ fwdAtRead = <<>>
    /\ cli = [id \in StreamIds |-> [use |-> MaxFrames, data |-> 0, ended |-> FALSE]]
    /\ srv = [id \in StreamIds |-> [use |-> MaxFrames, hdr |-> FALSE, data |-> 0]]
    /\ srvSaw = [id \in StreamIds |-> MaxFrames]
    /\ cliSaw = [id \in StreamIds |-> MaxFrames - 1]
    /\ nSent = [d \in Dirs |-> 0]
    /\ nCtl = MaxCtl
    /\ cont = [d \in Dirs |-> 0]
    /\ ids = {1, 3}
    /\ splitIn = EmptyMap
    /\ splitOut = splitGrpcTrailerHeaders(EmptyMap)
    /\ splitDone = FALSE

MuxSpec == MuxInit /\ [][Next]_vars

----------------------------------------------------------------------------
(* Properties *)

IsPrefix(a, b) == Len(a) <= Len(b) /\ SubSeq(b, 1, Len(a)) = a

Range(f) == { f[x] : x \in DOMAIN f }

\* the uses whose header values or payload bytes occur in h / in a payload
HeaderUses(h) == Range(h.pseudo) \cup Range(h.ordinary)
PayloadUses(bytes) == { bytes[i] \div 10 : i \in DOMAIN bytes }

RequestUses(rec) == HeaderUses(rec.reqHeaders) \cup PayloadUses(rec.reqPayload)

RecordUses(rec) ==
    RequestUses(rec) \cup HeaderUses(rec.respHeaders)
        \cup HeaderUses(rec.respTrailers) \cup PayloadUses(rec.respPayload)

IsTrailersFrame(frame) == frame.type = "Headers" /\ frame.endStream

HasOp(calls, op) == \E i \in DOMAIN calls : calls[i].op = op

\* loop d has made every store call of the Headers or Data frame cur[d]
Handled(d) == ops[d] # <<>> /\ todo[d] = <<>>

(* C1, as stated: every stream whose END_STREAM Headers the response loop   *)
(* has taken through PersistMockForStream has exactly one Mock on the       *)
(* mocks channel.                                                           *)
C1_ExactlyOneMock ==
    \A id \in StreamIds : \A k \in Uses :
        life[id][k].persisted = 1 => life[id][k].sent = 1

(* C1, amended: for every use of a stream id whose END_STREAM Headers the   *)
(* response loop has handled, PersistMockForStream was called once and      *)
(* before ResetStream, and at most one Mock was sent: exactly one unless    *)
(* ctx was cancelled before the send.                                       *)
C1_SingleEmission ==
    /\ \A id \in StreamIds : \A k \in Uses :
          /\ life[id][k].persisted <= 1
          /\ life[id][k].sent <= life[id][k].persisted
          /\ life[id][k].reset <= life[id][k].persisted
          /\ life[id][k].persisted = 1 => (life[id][k].sent = 1 \/ ctxDone)
    /\ (IsTrailersFrame(cur["resp"]) /\ Handled("resp")) =>
          /\ life[cur["resp"].sid][cur["resp"].use].persisted = 1
          /\ life[cur["resp"].sid][cur["resp"].use].reset = 1
          /\ ops["resp"][Len(ops["resp"]) - 1].op = "PersistMockForStream"
          /\ ops["resp"][Len(ops["resp"])].op = "ResetStream"

C1_Witness ==
    /\ ~ctxDone
    /\ \A k \in {1, 2} : life[1][k] = [persisted |-> 1, sent |-> 1, reset |-> 1]

(* C2: the Mock of a stream holds every request Data payload that had been  *)
(* forwarded to the server when the response loop read the stream's         *)
(* END_STREAM Headers frame.                                                *)
C2_ForwardedPayloadInMock ==
    lastMock.sent => IsPrefix(lastMock.fwdAtRead, lastMock.mock.rec.reqPayload)

(* C3: the Mock sent for the k-th use of a stream id holds only header      *)
(* values and payload bytes of frames of the k-th use.                      *)
C3_NoResidue ==
    lastMock.sent => RecordUses(lastMock.mock.rec) \subseteq {lastMock.frame.use}

(* C10: when the response loop is about to call ResetStream(id) for use k,  *)
(* the record of id holds no request-side write of a later use, so the      *)
(* reset wipes nothing of the next stream.                                  *)
C10_ResetKeepsNextUse ==
    (pc["resp"] = "store" /\ Head(todo["resp"]).op = "ResetStream") =>
        \A u \in RequestUses(StreamOf(sic, cur["resp"].sid)) : u <= cur["resp"].use

\* frame with its pad length set to zero
ZeroPad(frame) ==
    IF "padLen" \in DOMAIN frame THEN [frame EXCEPT !.padLen = 0] ELSE frame

(* C4: once a loop is past the write of a frame of a handled type, it has   *)
(* written as many frames as it has read frames of handled types, and the   *)
(* last one written is the frame read, field for field, with pad length 0.  *)
C4_FrameFidelity ==
    \A d \in Dirs :
        pc[d] \in {"select", "read", "extract", "store"} =>
            /\ nOut[d] = nRd[d]
            /\ cur[d].type \in HandledTypes => lastOut[d] = ZeroPad(cur[d])

(* C5: once ctx is cancelled, every loop still running, also one waiting in *)
(* ReadFrame, eventually returns (the claim adds: with ctx.Err()).          *)
C5_CancelTerminates ==
    \A d \in Dirs : (ctxDone /\ pc[d] # "done") ~> (pc[d] = "done")

(* C6: PersistMockForStream and ResetStream are called, and a Mock is sent, *)
(* only by the response loop while it handles a Headers frame with          *)
(* END_STREAM; a use of a stream id whose END_STREAM Headers the server has *)
(* not sent has no Mock.                                                    *)
C6_SoleTrigger ==
    /\ \A d \in Dirs :
          (\/ HasOp(ops[d], "PersistMockForStream") \/ HasOp(ops[d], "ResetStream")
           \/ HasOp(todo[d], "PersistMockForStream") \/ HasOp(todo[d], "ResetStream"))
          => (d = "resp" /\ IsTrailersFrame(cur[d]))
    /\ lastMock.sent => (lastMock.dir = "resp" /\ IsTrailersFrame(lastMock.frame))
    /\ \A id \in StreamIds : \A k \in Uses :
          life[id][k].persisted + life[id][k].reset > 0 => srv[id].use > k

\* the request loop has handled a Headers frame with END_STREAM without a
\* Mock of its own: the one Mock is that of the response loop
C6_Witness ==
    /\ cur["req"].type = "Headers" /\ cur["req"].endStream /\ Handled("req")
    /\ pc["req"] = "select"
    /\ lastMock.sent
    /\ life[1][1].sent = 1

(* C7: a PersistMockForStream call that finds the mocks channel full with   *)
(* ctx cancelled returns; ResetStream runs and the response loop returns    *)
(* ctx.Err().                                                               *)
C7_PersistReturns ==
    (/\ pc["resp"] = "store"
     /\ Head(todo["resp"]).op = "PersistMockForStream"
     /\ chanLen = ChanCap
     /\ ctxDone)
    ~> (/\ pc["resp"] = "done"
        /\ ret["resp"] = ctxErr
        /\ HasOp(ops["resp"], "ResetStream"))

\* the response loop has returned ctx.Err() after a PersistMockForStream
\* that sent nothing into the full channel, and after the ResetStream
C7_Witness ==
    /\ pc["resp"] = "done" /\ ret["resp"] = ctxErr
    /\ chanLen = ChanCap
    /\ \E i \in DOMAIN ops["resp"] :
          /\ ops["resp"][i].op = "PersistMockForStream"
          /\ ~ops["resp"][i].sent
          /\ i < Len(ops["resp"])
          /\ ops["resp"][i + 1].op = "ResetStream"

\* the state of the Frame Relay Loop
LoopState(d) ==
    IF pc[d] # "done" THEN "Running"
    ELSE IF ret[d] = EOF THEN "Closed" ELSE "Failed"

(* C8: a failed read ends the loop: with io.EOF it returns io.EOF itself    *)
(* (Closed), with any other error it returns an error other than io.EOF     *)
(* (Failed); the failing read and everything after it write no frame and    *)
(* make no store call.                                                      *)
C8_ReadError ==
    /\ [](\A d \in Dirs :
            readErr[d] # NoErr =>
                /\ pc[d] = "done"
                /\ readErr[d] = EOF => (ret[d] = EOF /\ LoopState(d) = "Closed")
                /\ readErr[d] # EOF =>
                      /\ ret[d] # EOF
                      /\ ret[d] # NoErr
                      /\ LoopState(d) = "Failed")
    /\ [][\A d \in Dirs :
            (readErr'[d] # NoErr) =>
                /\ nOut'[d] = nOut[d]
                /\ lastOut'[d] = lastOut[d]
                /\ ops'[d] = ops[d]
                /\ todo'[d] = todo[d]
                /\ (readErr[d] = NoErr => (sic' = sic /\ life' = life))]_vars

C8_Witness ==
    /\ readErr["req"] = EOF /\ ret["req"] = EOF
    /\ readErr["resp"] = ErrConnReset /\ ret["resp"] # EOF
    /\ nOut["req"] > 0 /\ nOut["resp"] > 0

\* k begins with "grpc-"
BeginsWithGrpc(k) ==
    /\ Len(k) >= 5
    /\ k[1] = "g" /\ k[2] = "r" /\ k[3] = "p" /\ k[4] = "c" /\ k[5] = "-"

(* C9: splitGrpcTrailerHeaders puts every key that begins with "grpc-" in   *)
(* trailer only, every other key in normal only, each with its value, and   *)
(* the two results hold exactly the keys of the argument.                   *)
C9_TrailerPartition ==
    splitDone =>
        /\ DOMAIN splitOut.normal \cup DOMAIN splitOut.trailer = DOMAIN splitIn
        /\ DOMAIN splitOut.normal \cap DOMAIN splitOut.trailer = {}
        /\ \A k \in DOMAIN splitIn :
              IF BeginsWithGrpc(k)
              THEN k \in DOMAIN splitOut.trailer /\ splitOut.trailer[k] = splitIn[k]
              ELSE k \in DOMAIN splitOut.normal /\ splitOut.normal[k] = splitIn[k]

C9_Witness ==
    /\ splitDone
    /\ DOMAIN splitIn = SplitKeys
    /\ DOMAIN splitOut.trailer = {KeyGrpcStatus, KeyGrpcMessage, KeyGrpcOnly}
    /\ DOMAIN splitOut.normal = {KeyGrpcNoDash, KeyXGrpc, KeyStatus, KeyContentType}

(* C11: the request (response) timestamp of the Mock of stream s is the     *)
(* time at which a request (response) Data frame of stream s was handled:   *)
(* the field it is taken from was last assigned for a Data frame of s, not  *)
(* for a Data frame of another stream id.                                   *)
C11_PerStreamTimestamps ==
    lastMock.sent =>
        /\ lastMock.mock.reqTimestamp # ZeroTime =>
              lastMock.stamped.ReqTimestampMock.sid = lastMock.mock.sid
        /\ lastMock.mock.resTimestamp # ZeroTime =>
              lastMock.stamped.ResTimestampMock.sid = lastMock.mock.sid

(* C12: the store holds no StreamRecord for an id before the client has     *)
(* sent the first Headers frame of the id, and none once the response loop  *)
(* has reset the id for its use k, until the client opens use k+1.          *)
C12_RecordLifetime ==
    \A id \in StreamIds :
        /\ cli[id].use = 0 => id \notin DOMAIN sic.StreamInfo
        /\ \A k \in Uses :
              (life[id][k].reset >= 1 /\ cli[id].use = k) =>
                  id \notin DOMAIN sic.StreamInfo

\* the calls among calls that pass a header named name
CallsWith(calls, name) ==
    { j \in DOMAIN calls :
        /\ calls[j].op \in {"AddHeadersForRequest", "AddHeadersForResponse"}
        /\ name \in DOMAIN calls[j].call.headers }

\* every header field of the Headers frame cur[d] has been passed to the
\* store by exactly one call, on the side the claim names
Routed(d) ==
    LET fields == cur[d].frag.fields
        calls == ops[d]
        isTrailers == d = "resp" /\ cur[d].endStream
    IN  /\ \A i \in DOMAIN fields :
              /\ Cardinality(CallsWith(calls, fields[i].name)) = 1
              /\ \A j \in CallsWith(calls, fields[i].name) :
                    /\ calls[j].call.headers[fields[i].name] = fields[i].value
                    /\ calls[j].id = cur[d].sid
                    /\ calls[j].op = (IF d = "req" THEN "AddHeadersForRequest"
                                      ELSE "AddHeadersForResponse")
                    /\ calls[j].call.isPseudo = (fields[i].name[1] = ":")
                    /\ calls[j].call.isTrailer =
                          (isTrailers /\ BeginsWithGrpc(fields[i].name))
        /\ \A j \in DOMAIN calls :
              /\ calls[j].op # "PersistMockForStream"
              /\ DOMAIN calls[j].call.headers \subseteq
                    { fields[i].name : i \in DOMAIN fields }
              /\ d = "req" =>
                    (calls[j].op = "AddHeadersForRequest" /\ ~calls[j].call.isTrailer)
              /\ (d = "resp" /\ ~cur[d].endStream) =>
                    (calls[j].op = "AddHeadersForResponse" /\ ~calls[j].call.isTrailer)

(* C13: when a loop has made the AddHeaders calls of a Headers frame (and   *)
(* before it calls PersistMockForStream), every decoded header has gone to  *)
(* one side: request Headers to the request headers only; response Headers  *)
(* without END_STREAM to the response headers, "grpc-" keys included;       *)
(* response Headers with END_STREAM to the response trailers if the key     *)
(* begins with "grpc-" and to the response headers otherwise.               *)
C13_HeaderRouting ==
    \A d \in Dirs :
        (/\ cur[d].type = "Headers"
         /\ pc[d] \in {"select", "read", "store"}
         /\ ops[d] # <<>>
         /\ (todo[d] = <<>> \/ Head(todo[d]).op = "PersistMockForStream")
         /\ ~HasOp(ops[d], "PersistMockForStream"))
        => Routed(d)

\* the response loop has handled the Headers frame (no END_STREAM, with a
\* grpc-encoding header) of the second use, after the first use's trailers
\* went into a Mock, and the request loop has handled a Headers frame
C13_Witness ==
    /\ cur["resp"].type = "Headers" /\ ~cur["resp"].endStream /\ Handled("resp")
    /\ CallsWith(ops["resp"], KeyGrpcEncoding) # {}
    /\ cur["req"].type = "Headers" /\ Handled("req")
    /\ lastMock.sent
    /\ KeyGrpcStatus \in DOMAIN lastMock.mock.rec.respTrailers.ordinary
    /\ KeyXGrpc \in DOMAIN lastMock.mock.rec.respHeaders.ordinary

(* C14: when a loop is between frames, every header-block fragment it has   *)
(* read (in Headers, Continuation and PushPromise frames) has been written  *)
(* to its decoder, the last one written being the last one read; and the    *)
(* fragment of a Headers frame is decoded only if the frame ends its header *)
(* block.                                                                   *)
C14_DecodeOrder ==
    \A d \in Dirs :
        /\ pc[d] \in {"select", "read"} => decoder[d].n = nFrag[d]
        /\ (pc[d] \in {"select", "read"} /\ cur[d].type \in HeaderBlockTypes) =>
              decoder[d].last = cur[d].frag
        /\ (pc[d] = "store" /\ cur[d].type = "Headers") => cur[d].endHeaders

\* loop d has returned the error of a failed write
WriteFailed(d) == ret[d] # NoErr /\ Head(ret[d]) = "could not write frame"

\* loop d is past the write of the frame cur[d] although nothing was written
WriteSkipped(d) ==
    /\ pc[d] \in {"extract", "store"}
    /\ lastOut[d] # Forward(cur[d])

(* C15: a failed write ends the loop with an error: the frame is not        *)
(* written, none of its store calls is made or pending, the step changes    *)
(* nothing in the store, the loop is never past a write that wrote nothing, *)
(* and after the failure the loop reads no frame and makes no call.         *)
C15_WriteFailure ==
    /\ [](\A d \in Dirs :
            /\ ~WriteSkipped(d)
            /\ WriteFailed(d) =>
                  /\ pc[d] = "done"
                  /\ LoopState(d) = "Failed"
                  /\ ops[d] = <<>>
                  /\ todo[d] = <<>>
                  /\ nOut[d] = nRd[d] - 1)
    /\ [][\A d \in Dirs :
            /\ (pc[d] = "write" /\ nOut'[d] = nOut[d] /\ pc'[d] # "write") =>
                  /\ WriteFailed(d)'
                  /\ sic' = sic /\ life' = life /\ chanLen' = chanLen
                  /\ stamped' = stamped /\ decoder' = decoder
            /\ WriteFailed(d) =>
                  /\ cur'[d] = cur[d] /\ nRd'[d] = nRd[d] /\ ops'[d] = ops[d]
                  /\ nOut'[d] = nOut[d] /\ pc'[d] = "done"]_vars

\* the request loop failed to write a Data frame, the response loop failed to
\* write a Headers frame with END_STREAM: nothing of either is in the store
\* and no Mock was sent
C15_Witness ==
    /\ WriteFailed("req") /\ cur["req"].type = "Data"
    /\ WriteFailed("resp") /\ IsTrailersFrame(cur["resp"])
    /\ ~lastMock.sent
    /\ sic.ReqTimestampMock = ZeroTime
    /\ StreamOf(sic, 1).reqPayload = <<>>

\* loop d has returned the error of a failed extractHeaders
DecodeFailed(d) ==
    ret[d] # NoErr /\ Head(ret[d]) = "could not extract headers from frame"

(* C16: a Headers frame whose header block does not decode ends the loop    *)
(* with an error; none of its store calls is made or pending, the failing   *)
(* step changes nothing in the store and sends no Mock, no loop makes store *)
(* calls for such a frame, and if it is a response Headers frame with       *)
(* END_STREAM, its stream has had no PersistMockForStream, no ResetStream   *)
(* and no Mock.                                                             *)
C16_DecodeFailure ==
    /\ [](\A d \in Dirs :
            /\ (pc[d] = "store" /\ cur[d].type = "Headers") => ~cur[d].frag.truncated
            /\ DecodeFailed(d) =>
                  /\ pc[d] = "done"
                  /\ LoopState(d) = "Failed"
                  /\ cur[d].type = "Headers" /\ cur[d].frag.truncated
                  /\ ops[d] = <<>>
                  /\ todo[d] = <<>>
                  /\ (d = "resp" /\ cur[d].endStream) =>
                        life[cur[d].sid][cur[d].use] =
                            [persisted |-> 0, sent |-> 0, reset |-> 0])
    /\ [][\A d \in Dirs :
            (pc[d] = "extract" /\ cur[d].frag.truncated /\ pc'[d] # "extract") =>
                /\ DecodeFailed(d)'
                /\ sic' = sic /\ life' = life /\ chanLen' = chanLen
                /\ lastMock' = lastMock]_vars

\* the response loop failed to decode the END_STREAM Headers of stream 1:
\* no Mock, and the record of the stream, with its request headers, is
\* still in the store
C16_Witness ==
    /\ DecodeFailed("resp") /\ IsTrailersFrame(cur["resp"])
    /\ ~lastMock.sent
    /\ 1 \in DOMAIN sic.StreamInfo
    /\ KeyPath \in DOMAIN sic.StreamInfo[1].reqHeaders.pseudo
    /\ sic.StreamInfo[1].respHeaders = NoHeaders
    /\ sic.StreamInfo[1].respTrailers = NoHeaders

\* the operations of the store
StoreOps == {"AddHeadersForRequest", "AddHeadersForResponse",
             "AddPayloadForRequest", "AddPayloadForResponse",
             "PersistMockForStream", "ResetStream"}

(* C17: every write a loop makes to the StreamInfoCollection is one of the  *)
(* store's operations: the writes it has made for its frame are all among   *)
(* them, and no field of the collection is ever seen half-written by the    *)
(* other loop.                                                              *)
C17_SerializedAccess ==
    /\ \A d \in Dirs : \A i \in DOMAIN ops[d] : ops[d][i].op \in StoreOps
    /\ sic.ReqTimestampMock[1] = sic.ReqTimestampMock[2]
    /\ sic.ResTimestampMock[1] = sic.ResTimestampMock[2]

\* loop d has written the Headers or Data frame cur[d] to lhs
Forwarded(d) ==
    /\ cur[d].type \in {"Headers", "Data"}
    /\ lastOut[d] = ZeroPad(cur[d])
    /\ nOut[d] = nRd[d]

(* C18: a loop decodes the header block of a Headers frame, assigns a       *)
(* timestamp or makes a store call for a Headers or Data frame only in a    *)
(* step after the one that wrote the frame to the destination; a loop that  *)
(* returned a decode error has written the frame that caused it.            *)
C18_ForwardFirst ==
    /\ [](\A d \in Dirs :
            /\ (pc[d] \in {"extract", "store"} \/ ops[d] # <<>>) => Forwarded(d)
            /\ DecodeFailed(d) => Forwarded(d))
    /\ [][\A d \in Dirs :
            (\/ decoder'[d] # decoder[d]
             \/ Len(ops'[d]) > Len(ops[d])
             \/ (pc[d] = "store" /\ todo'[d] # todo[d])) => Forwarded(d)]_vars

\* the request loop returned a decode error for a Headers frame the server
\* has received and answered; the response loop has forwarded and stored
\* a Data frame of the answer
C18_Witness ==
    /\ DecodeFailed("req") /\ Forwarded("req")
    /\ srvSaw[cur["req"].sid] = cur["req"].use
    /\ cur["resp"].type = "Data" /\ Handled("resp") /\ Forwarded("resp")
    /\ StreamOf(sic, cur["resp"].sid).respPayload = cur["resp"].data

\* loop d read a frame of none of the ten handled types last
ReadUnknown(d) == cur[d] # NoFrame /\ cur[d].type \notin HandledTypes

(* C19: the step that reads a frame of none of the ten handled types takes  *)
(* the loop back to the top of its for loop without an error: nothing is    *)
(* written to the destination, no store call is made or pending, the store  *)
(* is unchanged; as long as that frame is the last one read the loop is     *)
(* never in a write or a store call, and if it has returned, then not       *)
(* because of the frame.                                                    *)
C19_UnknownDropped ==
    /\ [](\A d \in Dirs :
            ReadUnknown(d) =>
                /\ pc[d] \in {"select", "read", "done"}
                /\ ops[d] = <<>> /\ todo[d] = <<>>
                /\ lastOut[d] # cur[d]
                /\ pc[d] = "done" => (ret[d] = ctxErr \/ readErr[d] # NoErr))
    /\ [][\A d \in Dirs :
            (cur'[d] # cur[d] /\ ReadUnknown(d)') =>
                /\ pc'[d] = "select" /\ ret'[d] = NoErr
                /\ LoopState(d)' = "Running"
                /\ nOut'[d] = nOut[d] /\ lastOut'[d] = lastOut[d]
                /\ sic' = sic /\ life' = life /\ decoder' = decoder]_vars

\* the peer of the request loop sent two frames, the first of an unknown
\* type: the loop wrote nothing for it, went on and has read, written and
\* stored the second, a Headers frame
C19_Witness ==
    /\ nSent["req"] = 2 /\ inq["req"] = <<>>
    /\ nRd["req"] = 1 /\ nOut["req"] = 1
    /\ cur["req"].type = "Headers" /\ Handled("req")
    /\ ret["req"] = NoErr

====
